---- MODULE Spec2Model ----
(***************************************************************************)
(* Projection wiring of PsyNeuLink: the staged construction of a           *)
(* Projection (Functions/Projections/Projection.py), its Mapping subclass  *)
(* (Functions/Projections/Mapping.py) and the Utility functions a          *)
(* projection uses as its transform (Functions/Utility.py).                *)
(***************************************************************************)
EXTENDS Integers, Sequences, FiniteSets, TLC

(***************************************************************************)
(* Bounds of the model.                                                    *)
(***************************************************************************)
MaxProjections == 1

\* the longest sender vector of the identity round trip
MaxVecLen == 3

\* calls of update on one projection
MaxUpdates == 2

\* calls of execute on one utility function
MaxCalls == 2

\* constructions in a sequence of constructions
MaxSequence == 3

(***************************************************************************)
(* Values.  A value is a number (dim 0), a 1-D sequence of numbers (dim 1) *)
(* or a 2-D sequence of rows (dim 2); rows always holds the rows, so that  *)
(* every value has the same type.  dim -1 is NotImplemented (no value).    *)
(***************************************************************************)
Num(x) == [dim |-> 0, rows |-> <<<<x>>>>]

Vec(v) == [dim |-> 1, rows |-> <<v>>]

Mat(m) == [dim |-> 2, rows |-> m]

NotImplementedValue == [dim |-> -1, rows |-> <<>>]

\* isinstance(x, numbers.Number)
IsNumber(x) == x.dim = 0

\* len(x) is defined for sequences only; on a number Python raises TypeError
HasLen(x) == x.dim \in {1, 2}

len(x) == IF x.dim = 1 THEN Len(x.rows[1]) ELSE Len(x.rows)

\* Compatibility of two values: by shape, never by magnitude.
iscompatible(candidate, reference) ==
    \/ candidate.dim = 0 /\ reference.dim = 0
    \/ /\ candidate.dim = 1 /\ reference.dim = 1
       /\ len(candidate) = len(reference)
    \/ /\ candidate.dim = 2 /\ reference.dim = 2
       /\ Len(candidate.rows) = Len(reference.rows)
       /\ \A i \in 1..Len(candidate.rows) :
              Len(candidate.rows[i]) = Len(reference.rows[i])
    \/ candidate.dim = 0 /\ reference.dim = 1 /\ len(reference) = 1
    \/ candidate.dim = 1 /\ reference.dim = 0 /\ len(candidate) = 1

(***************************************************************************)
(* The objects a projection can be wired to.  Every object and class is    *)
(* named by a string.                                                      *)
(***************************************************************************)
NotImplemented == "NotImplemented"

\* Mechanism instances, each with its primary input and output state
Mechanisms == {"A", "B", "C"}

inputState == [m \in Mechanisms |->
                 CASE m = "A" -> "inA" [] m = "B" -> "inB" [] OTHER -> "inN"]

outputState == [m \in Mechanisms |->
                 CASE m = "A" -> "outA" [] m = "B" -> "outB" [] OTHER -> "outM"]

\* The one Process of the model; its input is the ProcessInputState procIn
Processes == {"P"}

\* Classes of Mechanism and MechanismState
OutputStateClasses == {"MechanismOutputState", "ProcessInputState"}

StateClasses == OutputStateClasses \cup {"MechanismInputState"}

MechanismClasses == {"Mechanism"}

\* A MechanismState instance: its class, owner, value and projection lists
NewState(class, owner, value) ==
    [class |-> class, ownerMechanism |-> owner, value |-> value,
     sendsToProjections |-> <<>>, receivesFromProjections |-> <<>>]

InitialStates ==
    ("outA"   :> NewState("MechanismOutputState", "A", Vec(<<5>>))      @@
     "outB"   :> NewState("MechanismOutputState", "B", Vec(<<5, 7>>))   @@
     "outM"   :> NewState("MechanismOutputState", "C", Mat(<<<<5>>>>))  @@
     "outW"   :> NewState("MechanismOutputState", "C", Mat(<<<<5, 7>>>>)) @@
     "procIn" :> NewState("ProcessInputState", "P", Vec(<<5>>))         @@
     "inA"    :> NewState("MechanismInputState", "A", Vec(<<0>>))       @@
     "inB"    :> NewState("MechanismInputState", "B", Vec(<<0, 0>>))    @@
     "inN"    :> NewState("MechanismInputState", "C", Num(0)))

(***************************************************************************)
(* Projection classes.  Mapping declares no execute method of its own; a   *)
(* subclass of Projection_Base may declare one, whose output is then       *)
(* whatever that method returns.                                           *)
(***************************************************************************)
ProjectionTypes == {"Mapping", "Projection"}

\* paramClassDefaults[kwProjectionSender], as resolved by the package init
kwProjectionSenderDefault == "MechanismOutputState"

\* paramClassDefaults[kwProjectionSenderValue] of Mapping: [1]
kwProjectionSenderValue == Vec(<<1>>)

\* Projection_Base.variableClassDefault: [0]
variableClassDefault == Vec(<<0>>)

\* The transforms params[kwExecuteMethod] can name
Transforms == {"LinearMatrixIdentity", "LinearMatrixFiller", "Linear"}

\* UtilityFunctionOutputType, and None for "no conversion"
RAW_NUMBER == 0

NP_1D_ARRAY == 1

NP_2D_ARRAY == 2

None == -1

(***************************************************************************)
(* Inputs of a construction.                                               *)
(***************************************************************************)
SenderArgs == {NotImplemented, "outA", "outM", "outW", "procIn", "inA",
               "A", "MechanismOutputState", "MechanismInputState", "P", "bad"}

ReceiverArgs == {"A", "inB", "inN"}

SenderParams == {kwProjectionSenderDefault, "outB", "bad"}

\* Outputs a subclass's own execute method may have
OwnOutputs == {Vec(<<0>>), Vec(<<0, 0>>)}

VARIABLES
    states,                      \* MechanismState instances, by name
    configurationMechanismNames, \* of Process P: the mechanisms of its chain
    proj,                        \* the projection under construction
    nProjections,                \* projections constructed or being so
    returned,                    \* what the last call of update returned
    updates,                     \* calls of update on the projection so far
    fn,                          \* a utility function constructed on its own
    call,                        \* the last call made on fn, with its result
    package                      \* the package initialisation: the default
                                 \* sender of each projection type

projectionVars ==
    <<states, configurationMechanismNames, proj, nProjections, returned, updates>>

utilityVars == <<fn, call>>

packageVars == <<package>>

vars == <<projectionVars, utilityVars, packageVars>>

(***************************************************************************)
(* Type predicates (isinstance / issubclass of the source).                *)
(***************************************************************************)
IsMechanism(x) == x \in Mechanisms

IsMechanismState(x) == x \in DOMAIN states

IsProcess(x) == x \in Processes

IsMechanismOutputState(x) ==
    x \in DOMAIN states /\ states[x].class \in OutputStateClasses

IsProcessInputState(x) ==
    x \in DOMAIN states /\ states[x].class = "ProcessInputState"

IsClass(x) == x \in StateClasses \cup MechanismClasses

\* x has a value attribute (Projection_Base.__init__ reads sender.value)
valueOf(x) ==
    IF IsMechanismState(x) THEN states[x].value
    ELSE IF IsMechanism(x) THEN states[outputState[x]].value
    ELSE NotImplementedValue

(***************************************************************************)
(* Utility functions (Functions/Utility.py).  A call returns a result      *)
(* record: err is "none" or the exception raised, val the value returned.  *)
(***************************************************************************)
Ok(v) == [err |-> "none", val |-> v]

Raise(e) == [err |-> e, val |-> NotImplementedValue]

\* paramClassDefaults[kwFunctionOutputTypeConversion] of each function class
kwFunctionOutputTypeConversion(function) == function = "Linear"

\* Utility_Base.functionOutputType (getter)
functionOutputType(function, stored) ==
    IF kwFunctionOutputTypeConversion(function) THEN stored ELSE None

\* Utility_Base.functionOutputType (setter): err and the mode now stored
set_functionOutputType(function, variable, stored, value) ==
    IF value \notin {RAW_NUMBER, None} /\ ~kwFunctionOutputTypeConversion(function)
    THEN [err |-> "UtilityError", stored |-> stored]
    ELSE IF ~HasLen(variable)
    THEN [err |-> "TypeError", stored |-> stored]
    ELSE IF len(variable) > 1 /\ functionOutputType(function, stored) = RAW_NUMBER
    THEN [err |-> "UtilityError", stored |-> stored]
    ELSE [err |-> "none", stored |-> value]

\* variable * slope + intercept, elementwise
LinearRows(rows, slope, intercept) ==
    [i \in 1..Len(rows) |->
        [j \in 1..Len(rows[i]) |-> rows[i][j] * slope + intercept]]

\* Linear.execute
Linear_execute(variable, slope, intercept, outputType) ==
    LET result == [variable EXCEPT !.rows = LinearRows(variable.rows, slope, intercept)]
    IN  IF outputType = NP_2D_ARRAY
        THEN Raise("AttributeError")
        ELSE IF outputType = NP_1D_ARRAY
        THEN IF variable.dim = 2
             THEN IF len(variable) = 1
                  THEN Ok(Vec(result.rows[1]))
                  ELSE Raise("UtilityError")
             ELSE IF ~HasLen(variable)
             THEN Raise("TypeError")
             ELSE IF len(variable) = 1
             THEN Ok(result)
             ELSE IF len(variable) = 0
             THEN Ok(result)
             ELSE Raise("UtilityError")
        ELSE IF outputType = RAW_NUMBER
        THEN IF variable.dim = 2
             THEN IF len(variable) = 1 /\ Len(variable.rows[1]) = 1
                  THEN Ok(Num(result.rows[1][1]))
                  ELSE Raise("UtilityError")
             ELSE IF ~HasLen(variable)
             THEN Raise("TypeError")
             ELSE IF len(variable) = 1
             THEN Ok(Num(result.rows[1][1]))
             ELSE Ok(result)
        ELSE Ok(result)

\* Specifications of kwMatrix: the identity keyword, a filler number, a matrix
kwIdentityMatrix == [kind |-> "IdentityMatrix", number |-> 0, matrix |-> <<>>]

FillerSpec(n) == [kind |-> "number", number |-> n, matrix |-> <<>>]

\* A matrix of numbers given as a list of lists or as an np.matrix
ExplicitMatrix(container, m) ==
    [kind |-> "matrix", number |-> 0, matrix |-> m, container |-> container]

\* A matrix of LinearMatrix: np.matrix (isNpMatrix) or np.ndarray
NoMatrix == [isNpMatrix |-> FALSE, m |-> <<>>]

\* Faulty variant: every entry of the matrix is 1, whatever is specified
implement_matrix_of_ones(specification, sender_len, receiver_len) ==
    [err |-> "none",
     matrix |-> [isNpMatrix |-> FALSE,
                 m |-> [i \in 1..sender_len |-> [j \in 1..receiver_len |-> 1]]]]

\* Faulty variant: whatever the receiver, the matrix is the identity of the
\* length of the sender
implement_matrix_square(specification, sender_len, receiver_len) ==
    [err |-> "none",
     matrix |-> [isNpMatrix |-> FALSE,
                 m |-> [i \in 1..sender_len |->
                          [j \in 1..sender_len |-> IF i = j THEN 1 ELSE 0]]]]

\* LinearMatrix.implement_matrix: an np.matrix is returned as it is, a number
\* fills a matrix, the identity keyword needs equal lengths; anything else,
\* a list of lists included, is refused
implement_matrix(specification, sender_len, receiver_len) ==
    IF specification.kind = "matrix" /\ specification.container = "np.matrix"
    THEN [err |-> "none",
          matrix |-> [isNpMatrix |-> TRUE, m |-> specification.matrix]]
    ELSE IF specification.kind = "number"
    THEN [err |-> "none",
          matrix |-> [isNpMatrix |-> TRUE,
                      m |-> [i \in 1..sender_len |->
                               [j \in 1..receiver_len |-> specification.number]]]]
    ELSE IF specification.kind = "IdentityMatrix"
    THEN IF sender_len # receiver_len
         THEN [err |-> "UtilityError", matrix |-> NoMatrix]
         ELSE [err |-> "none",
               matrix |-> [isNpMatrix |-> FALSE,
                           m |-> [i \in 1..sender_len |->
                                    [j \in 1..sender_len |->
                                        IF i = j THEN 1 ELSE 0]]]]
    ELSE [err |-> "UtilityError", matrix |-> NoMatrix]

RECURSIVE DotColumn(_, _, _, _)
\* sum over i <= n of v[i] * m[i][j]
DotColumn(v, m, j, n) ==
    IF n = 0 THEN 0 ELSE DotColumn(v, m, j, n - 1) + v[n] * m[n][j]

\* np.dot(variable, matrix) of a 1-D variable: an np.matrix operand makes
\* the result a one-row np.matrix, an np.ndarray operand a 1-D array
np_dot(variable, matrix) ==
    LET v == variable.rows[1]
        cols == IF Len(matrix.m) = 0 THEN 0 ELSE Len(matrix.m[1])
        r == [j \in 1..cols |-> DotColumn(v, matrix.m, j, Len(v))]
    IN  IF matrix.isNpMatrix THEN Mat(<<r>>) ELSE Vec(r)

\* LinearMatrix.execute
LinearMatrix_execute(variable, matrix) == Ok(np_dot(variable, matrix))

\* LinearMatrix.validate_variable: the variable is a 1-D array
LinearMatrix_validate_variable(variable) == variable.dim = 1

(***************************************************************************)
(* The transform of a projection: params[kwExecuteMethod] with its         *)
(* params[kwExecuteMethodParams].                                          *)
(***************************************************************************)
TransformFunction(t) == IF t = "Linear" THEN "Linear" ELSE "LinearMatrix"

\* params[kwExecuteMethodParams][kwMatrix]
TransformMatrixSpec(t) ==
    IF t = "LinearMatrixFiller" THEN FillerSpec(2) ELSE kwIdentityMatrix

\* Instantiation of the transform on the projection's variable: LinearMatrix
\* validates the variable and builds its matrix (no kwReceiver is given, so
\* the sender is the template of the receiver); Linear takes any variable.
InstantiateTransform(t, variable) ==
    IF TransformFunction(t) = "Linear"
    THEN [err |-> "none", matrix |-> NoMatrix]
    ELSE IF ~LinearMatrix_validate_variable(variable)
    THEN [err |-> "UtilityError", matrix |-> NoMatrix]
    ELSE implement_matrix(TransformMatrixSpec(t), len(variable), len(variable))

\* self.execute() of the instantiated transform on its variable
ExecuteTransform(t, variable, matrix, stored) ==
    IF TransformFunction(t) = "Linear"
    THEN Linear_execute(variable, 1, 0, functionOutputType("Linear", stored))
    ELSE LinearMatrix_execute(variable, matrix)

(***************************************************************************)
(* Construction of a projection: Function.__init__ runs validate_params,   *)
(* instantiate_attributes_before_execute_method and                        *)
(* instantiate_execute_method, in this order.                              *)
(***************************************************************************)
\* Faulty variant: the receiver is resolved before the sender
instantiate_attributes_receiver_first ==
    <<"instantiate_receiver", "instantiate_sender">>

\* Projection_Base.instantiate_attributes_before_execute_method
instantiate_attributes_before_execute_method ==
    <<"instantiate_sender", "instantiate_receiver">>

\* Projection_Base.instantiate_execute_method: the transform is instantiated,
\* then its output is reconciled with the receiver
instantiate_execute_method ==
    <<"instantiate_transform", "reconcile_output">>

InstantiationSequence ==
    <<"validate_params">> \o instantiate_attributes_before_execute_method
                          \o instantiate_execute_method

IdleProjection ==
    [id |-> 0, type |-> "Mapping", outcome |-> "idle", error |-> "none",
     pc |-> 0, started |-> <<>>,
     senderArg |-> NotImplemented, receiverArg |-> NotImplemented,
     senderParam |-> kwProjectionSenderDefault, transform |-> "Linear",
     sender |-> NotImplemented, receiver |-> NotImplemented,
     variable |-> NotImplementedValue, value |-> NotImplementedValue,
     execute |-> NotImplemented, matrix |-> NoMatrix,
     functionOutputType |-> None,
     self_execute_method |-> NotImplemented,
     self_execute_output |-> NotImplementedValue,
     naturalOutput |-> NotImplementedValue,
     senderSpec |-> NotImplemented,
     variableBefore |-> NotImplementedValue,
     statesBefore |-> InitialStates,
     configurationBefore |-> <<>>]

\* No call of update has returned
NothingReturned == [err |-> "no call", val |-> NotImplementedValue]

\* The stage the construction is about to run
Stage == IF proj.outcome = "running" THEN InstantiationSequence[proj.pc]
         ELSE "none"

\* The stage named is started
Start(p, stage) == [p EXCEPT !.started = Append(@, stage)]

\* The stage ends with an exception, which ends the construction
Fail(p, e) == [p EXCEPT !.outcome = "failed", !.error = e]

\* The stage returns: the next one runs, or the construction is complete
Return(p) ==
    IF p.pc = Len(InstantiationSequence)
    THEN [p EXCEPT !.outcome = "done", !.pc = @ + 1]
    ELSE [p EXCEPT !.pc = @ + 1]

\* No utility function is constructed on its own, and none is called
NoParams == <<>>

NoFunction ==
    [cls |-> "none", outcome |-> "none", error |-> "none",
     variable |-> NotImplementedValue, param_defaults |-> NoParams,
     paramInstanceDefaults |-> NoParams, paramsCurrent |-> NoParams,
     stored |-> None, receiver |-> NotImplementedValue, matrix |-> NoMatrix]

NoCall ==
    [n |-> 0, op |-> "none", params |-> NoParams, previous |-> NoParams,
     value |-> None, before |-> None, result |-> NothingReturned]

(***************************************************************************)
(* Package initialisation (Functions/__init__.py): the default sender of   *)
(* every registered projection type is validated, and resolved if it is a  *)
(* string.                                                                 *)
(***************************************************************************)
\* A class, an instance of a class, a string, and a value of another kind
ClassRef(name) == [kind |-> "class", name |-> name]

InstanceOf(name) == [kind |-> "instance", name |-> name]

Str(name) == [kind |-> "str", name |-> name]

OtherKind == [kind |-> "number", name |-> "0"]

\* The names under which the registries hold a class
ProjectionRegistry == <<"Mapping", "ControlSignal">>

MechanismRegistry == {"DDM"}

MechanismStateRegistry == {"MechanismInputState", "MechanismOutputState"}

\* Subclasses of Mechanism_Base and of MechanismState_Base
IsMechanismOrStateClassName(name) ==
    name \in MechanismClasses \cup MechanismRegistry
              \cup StateClasses \cup MechanismStateRegistry

\* paramClassDefaults[kwProjectionSender] of every type, as declared by the
\* classes and as resolved when the package has been initialised
DeclaredSenders ==
    [type \in {"Mapping", "ControlSignal"} |-> Str(kwProjectionSenderDefault)]

ResolvedSenders ==
    [type \in {"Mapping", "ControlSignal"} |->
        ClassRef(kwProjectionSenderDefault)]

PackageInitialised ==
    [given |-> DeclaredSenders, projection_params |-> ResolvedSenders,
     pc |-> Len(ProjectionRegistry) + 1, error |-> "none"]

\* One pass of the loop over ProjectionRegistry: err is the exception
\* raised, value is paramClassDefaults[kwProjectionSender] after the pass
resolve_projection_sender(projection_sender) ==
    IF /\ projection_sender.kind = "class"
       /\ IsMechanismOrStateClassName(projection_sender.name)
    THEN [err |-> "none", value |-> projection_sender]
    ELSE IF /\ projection_sender.kind = "instance"
            /\ IsMechanismOrStateClassName(projection_sender.name)
    THEN [err |-> "none", value |-> projection_sender]
    ELSE IF projection_sender.kind = "str"
    THEN LET looked_up ==
                 IF projection_sender.name \in MechanismRegistry
                 THEN ClassRef(projection_sender.name)
                 ELSE projection_sender
         IN  IF projection_sender.name \in MechanismStateRegistry
             THEN [err |-> "none", value |-> ClassRef(projection_sender.name)]
             ELSE [err |-> "InitError", value |-> looked_up]
    ELSE [err |-> "InitError", value |-> projection_sender]

\* The loop reaches the next projection type of the registry
Package_resolve_next ==
    /\ package.error = "none"
    /\ package.pc <= Len(ProjectionRegistry)
    /\ LET projection_type == ProjectionRegistry[package.pc]
           r == resolve_projection_sender(
                    package.projection_params[projection_type])
       IN  package' =
               [package EXCEPT
                  !.projection_params[projection_type] = r.value,
                  !.error = r.err,
                  !.pc = IF r.err = "none" THEN @ + 1 ELSE @]
    /\ UNCHANGED <<projectionVars, utilityVars>>

\* The defaults the projection classes can declare
GivenSenders ==
    {ClassRef("DDM"), ClassRef("MechanismOutputState"), ClassRef("Mapping"),
     InstanceOf("DDM"), InstanceOf("MechanismOutputState"),
     InstanceOf("Mapping"), Str("DDM"), Str("MechanismOutputState"),
     Str("nowhere"), OtherKind}

Init ==
    /\ package = PackageInitialised
    /\ fn = NoFunction
    /\ call = NoCall
    /\ states = InitialStates
    /\ configurationMechanismNames = <<>>
    /\ proj = IdleProjection
    /\ nProjections = 0
    /\ returned = NothingReturned
    /\ updates = 0

\* Projection_Base.__init__ (called by Mapping.__init__): sender and receiver
\* are assigned from the arguments, the variable from the sender's value
Projection_init(type, sender, receiver, senderParam, transform, ownOutput) ==
    /\ proj.outcome # "running"
    /\ nProjections < MaxProjections
    /\ nProjections' = nProjections + 1
    /\ proj' = [IdleProjection EXCEPT
                  !.id = nProjections + 1,
                  !.type = type,
                  !.outcome = "running",
                  !.pc = 1,
                  !.senderArg = sender,
                  !.receiverArg = receiver,
                  !.senderParam = senderParam,
                  !.transform = transform,
                  !.sender = sender,
                  !.receiver = receiver,
                  !.variable = IF valueOf(sender).dim = -1
                               THEN variableClassDefault
                               ELSE valueOf(sender),
                  !.execute = IF type = "Mapping" THEN NotImplemented ELSE "own",
                  !.value = ownOutput,
                  !.statesBefore = states,
                  !.configurationBefore = configurationMechanismNames]
    /\ returned' = NothingReturned
    /\ updates' = 0
    /\ UNCHANGED <<states, configurationMechanismNames>>
    /\ UNCHANGED <<utilityVars, packageVars>>

\* Projection_Base.__init__ as one of a sequence of up to MaxSequence
\* constructions
Projection_init_in_sequence(type, sender, receiver, senderParam, transform, ownOutput) ==
    /\ proj.outcome # "running"
    /\ nProjections < MaxSequence
    /\ nProjections' = nProjections + 1
    /\ proj' = [IdleProjection EXCEPT
                  !.id = nProjections + 1,
                  !.type = type,
                  !.outcome = "running",
                  !.pc = 1,
                  !.senderArg = sender,
                  !.receiverArg = receiver,
                  !.senderParam = senderParam,
                  !.transform = transform,
                  !.sender = sender,
                  !.receiver = receiver,
                  !.variable = IF valueOf(sender).dim = -1
                               THEN variableClassDefault
                               ELSE valueOf(sender),
                  !.execute = IF type = "Mapping" THEN NotImplemented ELSE "own",
                  !.value = ownOutput,
                  !.statesBefore = states,
                  !.configurationBefore = configurationMechanismNames]
    /\ returned' = NothingReturned
    /\ updates' = 0
    /\ UNCHANGED <<states, configurationMechanismNames>>
    /\ UNCHANGED <<utilityVars, packageVars>>

\* A sender specification of a valid type, as validate_params tests it for
\* kwProjectionSender
IsValidSenderParam(x) == IsMechanism(x) \/ IsMechanismState(x) \/ IsClass(x)

\* and as it tests it for the sender argument, where a Process is accepted
IsValidSenderArg(x) ==
    IsMechanism(x) \/ IsMechanismState(x) \/ IsProcess(x) \/ IsClass(x)

\* paramClassDefaults[kwProjectionSender] of the class of a projection: the
\* class the package init resolved it to, or, for a class whose default was
\* never resolved, the name it was declared by
ClassDefaultSender(type) ==
    IF type = "Unresolved" THEN "bad" ELSE kwProjectionSenderDefault

\* Faulty variant: an invalid sender argument is kept, not replaced by the default
validate_params_keeps_invalid(p) ==
    LET sender_param == p.senderParam
    IN  IF IsValidSenderParam(sender_param)
        THEN IF sender_param # ClassDefaultSender(p.type)
             THEN [p EXCEPT !.sender = sender_param]
             ELSE IF p.sender = NotImplemented
             THEN [p EXCEPT !.sender = sender_param]
             ELSE p
        ELSE Fail([p EXCEPT !.sender = ClassDefaultSender(p.type)], "TypeError")

\* Faulty variant: a valid sender argument is kept whatever kwProjectionSender is
validate_params_argument_first(p) ==
    LET sender_param == p.senderParam
    IN  IF IsValidSenderParam(sender_param)
        THEN IF p.sender # NotImplemented /\ IsValidSenderArg(p.sender)
             THEN p
             ELSE [p EXCEPT !.sender = sender_param]
        ELSE Fail([p EXCEPT !.sender = ClassDefaultSender(p.type)], "TypeError")

\* Projection_Base.validate_params: the projection after the call
validate_params_result(p) ==
    LET sender_param == p.senderParam
    IN  IF IsValidSenderParam(sender_param)
        THEN IF sender_param # ClassDefaultSender(p.type)
             THEN [p EXCEPT !.sender = sender_param]
             ELSE IF p.sender = NotImplemented
             THEN [p EXCEPT !.sender = sender_param]
             ELSE IF ~IsValidSenderArg(p.sender)
             THEN [p EXCEPT !.sender = sender_param]
             ELSE p
        \* every branch assigns the class default, and the test of the class
        \* default that follows calls isinstance with three arguments
        ELSE Fail([p EXCEPT !.sender = ClassDefaultSender(p.type)], "TypeError")

validate_params ==
    /\ Stage = "validate_params"
    /\ LET r == validate_params_result(Start(proj, "validate_params"))
       IN  proj' = IF r.outcome = "failed" THEN r ELSE Return(r)
    /\ UNCHANGED <<states, configurationMechanismNames, nProjections, returned, updates>>
    /\ UNCHANGED <<utilityVars, packageVars>>

\* The name of the default sender instantiated for projection p
DefaultSenderName(p) == "default" \o ToString(p.id)

\* Mapping.instantiate_sender: a ProcessInputState may be the sender only
\* while the configuration of its Process lists at most one mechanism
Mapping_sender_refused(p, st, configuration) ==
    /\ p.sender \in DOMAIN st
    /\ st[p.sender].class = "ProcessInputState"
    /\ Len(configuration) > 1

\* Faulty variant: a variable that is not compatible with sender.value is kept
reconciled_variable_kept(variable, sender_value) ==
    IF iscompatible(variable, sender_value) THEN sender_value ELSE variable

\* The variable of the projection after it is validated against sender.value
reconciled_variable(variable, sender_value) ==
    IF iscompatible(variable, sender_value)
    THEN sender_value    \* self.variable = self.sender.value
    ELSE sender_value    \* self.assign_defaults(variable=self.sender.value)

\* Faulty variant: a Mechanism is resolved to its input state, and a state of any
\* class is accepted as the sender
Projection_instantiate_sender_any_state(p, st) ==
    LET sender == IF IsMechanism(p.sender) THEN inputState[p.sender]
                  ELSE p.sender
    IN  IF sender \notin DOMAIN st
        THEN [proj |-> Fail(p, "ProjectionError"), states |-> st]
        ELSE [proj |-> [p EXCEPT !.sender = sender,
                                 !.variable = st[sender].value],
              states |-> [st EXCEPT ![sender].sendsToProjections =
                                        Append(@, p.id)]]

\* Faulty variant: the projection is put first in the list of its sender
Projection_instantiate_sender_prepends(p, st) ==
    LET sender == IF IsMechanism(p.sender) THEN outputState[p.sender]
                  ELSE p.sender
    IN  IF ~(sender \in DOMAIN st /\ st[sender].class \in OutputStateClasses)
        THEN [proj |-> Fail([p EXCEPT !.sender = sender], "ProjectionError"),
              states |-> st]
        ELSE [proj |-> [p EXCEPT !.sender = sender,
                                 !.variable = st[sender].value],
              states |-> [st EXCEPT ![sender].sendsToProjections =
                                        <<p.id>> \o @]]

\* Projection_Base.instantiate_sender: the projection and the states after it
Projection_instantiate_sender(p, st) ==
    LET isclass == IsClass(p.sender)
        st1 == IF isclass /\ p.sender \in OutputStateClasses
               THEN st @@ (DefaultSenderName(p) :>
                             NewState(p.senderParam, NotImplemented,
                                      kwProjectionSenderValue))
               ELSE st
        sender == IF isclass THEN DefaultSenderName(p)
                  ELSE IF IsMechanism(p.sender) THEN outputState[p.sender]
                  ELSE p.sender
    IN  IF isclass /\ p.sender \notin OutputStateClasses
        THEN [proj |-> Fail(p, "ProjectionError"), states |-> st]
        ELSE IF ~(sender \in DOMAIN st1 /\ st1[sender].class \in OutputStateClasses)
        THEN [proj |-> Fail([p EXCEPT !.sender = sender], "ProjectionError"),
              states |-> st1]
        ELSE [proj |-> [p EXCEPT
                          !.sender = sender,
                          !.variable = reconciled_variable(p.variable,
                                                           st1[sender].value)],
              states |-> [st1 EXCEPT ![sender].sendsToProjections =
                                          Append(@, p.id)]]

instantiate_sender_result(p, st, configuration) ==
    IF p.type = "Mapping" /\ Mapping_sender_refused(p, st, configuration)
    THEN [proj |-> Fail(p, "ProjectionError"), states |-> st]
    ELSE Projection_instantiate_sender(p, st)

instantiate_sender ==
    /\ Stage = "instantiate_sender"
    /\ LET p == [Start(proj, "instantiate_sender") EXCEPT
                    !.senderSpec = proj.sender,
                    !.variableBefore = proj.variable]
           r == instantiate_sender_result(p, states,
                                          configurationMechanismNames)
       IN  /\ proj' = IF r.proj.outcome = "failed" THEN r.proj ELSE Return(r.proj)
           /\ states' = r.states
    /\ UNCHANGED <<configurationMechanismNames, nProjections, returned, updates>>
    /\ UNCHANGED <<utilityVars, packageVars>>

\* Faulty variant: a Mechanism is resolved to its output state
resolved_receiver_output(receiver) ==
    IF IsMechanism(receiver) THEN outputState[receiver] ELSE receiver

\* Projection_Base.instantiate_receiver: the receiver of the projection
resolved_receiver(receiver) ==
    IF IsMechanism(receiver) THEN inputState[receiver] ELSE receiver

instantiate_receiver ==
    /\ Stage = "instantiate_receiver"
    /\ LET p == Start(proj, "instantiate_receiver")
           receiver == resolved_receiver(p.receiver)
       IN  /\ proj' = Return([p EXCEPT !.receiver = receiver])
           /\ states' = [states EXCEPT ![receiver].receivesFromProjections =
                                            Append(@, p.id)]
    /\ UNCHANGED <<configurationMechanismNames, nProjections, returned, updates>>
    /\ UNCHANGED <<utilityVars, packageVars>>

\* Projection_Base.instantiate_execute_method, first part: the execute method
\* the class declares is saved with its output, then params[kwExecuteMethod]
\* is instantiated and called once for its output
instantiate_transform_result(p) ==
    LET saved == [p EXCEPT !.self_execute_method = p.execute,
                           !.self_execute_output = p.value]
        t == InstantiateTransform(p.transform, p.variable)
        e == ExecuteTransform(p.transform, p.variable, t.matrix, None)
    IN  IF t.err # "none" THEN Fail(saved, t.err)
        ELSE IF e.err # "none" THEN Fail(saved, e.err)
        ELSE [saved EXCEPT !.execute = "configured",
                           !.matrix = t.matrix,
                           !.functionOutputType = None,
                           !.value = e.val,
                           !.naturalOutput = e.val]

instantiate_transform ==
    /\ Stage = "instantiate_transform"
    /\ LET r == instantiate_transform_result(Start(proj, "instantiate_transform"))
       IN  proj' = IF r.outcome = "failed" THEN r ELSE Return(r)
    /\ UNCHANGED <<states, configurationMechanismNames, nProjections, returned, updates>>
    /\ UNCHANGED <<utilityVars, packageVars>>

\* Projection_Base.instantiate_execute_method, last part: the execute method
\* the class declares is used if its output suits the receiver
Fallback(p, receiver_variable) ==
    IF p.self_execute_method = NotImplemented
    THEN Fail(p, "ProjectionError")
    ELSE IF ~iscompatible(p.self_execute_output, receiver_variable)
    THEN Fail(p, "ProjectionError")
    ELSE [p EXCEPT !.execute = p.self_execute_method,
                   !.value = p.self_execute_output]

\* the handler of a TypeError raised while the RAW_NUMBER conversion is tried
ExceptTypeError(p, receiver, projection_output) ==
    IF ~IsNumber(projection_output)
    THEN Fallback(p, receiver)
    ELSE IF ~HasLen(receiver)
    THEN Fail(p, "TypeError")
    ELSE IF len(receiver) # 1
    THEN Fallback(p, receiver)
    ELSE LET s == set_functionOutputType(TransformFunction(p.transform),
                                         p.variable, p.functionOutputType,
                                         NP_1D_ARRAY)
         IN  IF s.err = "UtilityError" THEN Fallback(p, receiver)
             ELSE IF s.err # "none" THEN Fail(p, s.err)
             ELSE [p EXCEPT !.functionOutputType = s.stored,
                            !.value = Vec(<<0>>)]

\* Faulty variant: no conversion is tried
CoerceOutput_skipped(p, receiver) == Fallback(p, receiver)

\* the conversion tried when the output does not suit the receiver: a
\* receiver that is a number and an output of length 1 make the transform
\* return a raw number
CoerceOutput(p, receiver) ==
    LET projection_output == p.value
        s == set_functionOutputType(TransformFunction(p.transform),
                                    p.variable, p.functionOutputType,
                                    RAW_NUMBER)
        q == [p EXCEPT !.functionOutputType = s.stored, !.value = Num(0)]
        e == ExecuteTransform(q.transform, q.variable, q.matrix,
                              q.functionOutputType)
    IN  IF ~IsNumber(receiver)
        THEN Fallback(p, receiver)
        ELSE IF ~HasLen(projection_output)
        THEN ExceptTypeError(p, receiver, projection_output)
        ELSE IF len(projection_output) # 1
        THEN Fallback(p, receiver)
        ELSE IF s.err = "UtilityError"
        THEN Fallback(p, receiver)
        ELSE IF s.err = "TypeError"
        THEN ExceptTypeError(p, receiver, projection_output)
        ELSE IF e.err = "TypeError"
        THEN ExceptTypeError(q, receiver, projection_output)
        ELSE IF e.err # "none"
        THEN Fail(q, e.err)
        ELSE IF iscompatible(receiver, e.val)
        THEN q
        ELSE Fallback(q, receiver)

\* Projection_Base.instantiate_execute_method, from the test of the output
Projection_reconcile_output(p, receiver_variable) ==
    IF iscompatible(p.value, receiver_variable)
    THEN p
    ELSE CoerceOutput(p, receiver_variable)

\* Faulty variant: the lengths are not compared
Mapping_lengths_ignored(receiver_value, value) == TRUE

\* Mapping.instantiate_execute_method: the lengths compared after super's
Mapping_lengths_equal(receiver_value, value) ==
    LET receiver_len == IF HasLen(receiver_value) THEN len(receiver_value) ELSE 1
        mapping_input_len == IF HasLen(value) THEN len(value) ELSE 1
    IN  receiver_len = mapping_input_len

reconcile_output_result(p, st) ==
    LET r == Projection_reconcile_output(p, st[p.receiver].value)
    IN  IF r.outcome = "failed"
        THEN r
        ELSE IF /\ p.type = "Mapping"
                /\ ~Mapping_lengths_equal(st[p.receiver].value, r.value)
        THEN Fail(r, "ProjectionError")
        ELSE r

reconcile_output ==
    /\ Stage = "reconcile_output"
    /\ LET r == reconcile_output_result(Start(proj, "reconcile_output"), states)
       IN  proj' = IF r.outcome = "failed" THEN r ELSE Return(r)
    /\ UNCHANGED <<states, configurationMechanismNames, nProjections, returned, updates>>
    /\ UNCHANGED <<utilityVars, packageVars>>

\* Faulty variant: update executes the transform on the variable the
\* projection got from the sender when it was wired
Mapping_update_stale(p, st) ==
    ExecuteTransform(p.transform, p.variable, p.matrix, p.functionOutputType)

\* Mapping.update: the sender's value is pulled and the transform executed
\* on it; the value is returned, and nothing else is written
Mapping_update_result(p, st) ==
    ExecuteTransform(p.transform, st[p.sender].value, p.matrix,
                     p.functionOutputType)

Mapping_update ==
    /\ proj.outcome = "done"
    /\ proj.type = "Mapping"
    /\ updates < MaxUpdates
    /\ updates' = updates + 1
    /\ returned' = Mapping_update_result(proj, states)
    /\ UNCHANGED <<states, configurationMechanismNames, proj, nProjections>>
    /\ UNCHANGED <<utilityVars, packageVars>>

(***************************************************************************)
(* The Process lists the mechanisms of its configuration one by one.       *)
(***************************************************************************)
Configuration == <<"A", "B">>

Process_instantiate_configuration ==
    /\ proj.outcome # "running"
    /\ Len(configurationMechanismNames) < Len(Configuration)
    /\ configurationMechanismNames' =
           Append(configurationMechanismNames,
                  Configuration[Len(configurationMechanismNames) + 1])
    /\ UNCHANGED <<states, proj, nProjections, returned, updates>>
    /\ UNCHANGED <<utilityVars, packageVars>>

\* A projection of any class is constructed, with any arguments: no
\* construction is running and one more is allowed
Projection_construct ==
    /\ proj.outcome # "running"
    /\ nProjections < MaxProjections
    /\ \E type \in ProjectionTypes, sender \in SenderArgs,
          receiver \in ReceiverArgs, senderParam \in SenderParams,
          transform \in Transforms :
          \E ownOutput \in IF type = "Mapping" THEN {NotImplementedValue}
                           ELSE OwnOutputs :
             Projection_init(type, sender, receiver, senderParam, transform,
                             ownOutput)

Next ==
    \/ Projection_construct
    \/ validate_params
    \/ instantiate_sender
    \/ instantiate_receiver
    \/ instantiate_transform
    \/ reconcile_output
    \/ Mapping_update
    \/ Process_instantiate_configuration

Spec == Init /\ [][Next]_vars

(***************************************************************************)
(* The identity round trip: a default Mapping projection is wired from a   *)
(* sender whose value is any vector of bounded length to a receiver of the *)
(* same length, and updated.                                               *)
(***************************************************************************)
Entries == {-1, 0, 5}

SenderVectors == UNION {[1..n -> Entries] : n \in 1..MaxVecLen}

InitIdentity ==
    /\ package = PackageInitialised
    /\ fn = NoFunction
    /\ call = NoCall
    /\ \E v \in SenderVectors :
          states = [InitialStates EXCEPT
                      !["outA"].value = Vec(v),
                      !["inA"].value = Vec([i \in 1..Len(v) |-> 0])]
    /\ configurationMechanismNames = <<>>
    /\ proj = IdleProjection
    /\ nProjections = 0
    /\ returned = NothingReturned
    /\ updates = 0

NextIdentity ==
    \/ \E receiver \in {"A", "inA"} :
          Projection_init("Mapping", "outA", receiver,
                          kwProjectionSenderDefault, "LinearMatrixIdentity",
                          NotImplementedValue)
    \/ validate_params
    \/ instantiate_sender
    \/ instantiate_receiver
    \/ instantiate_transform
    \/ reconcile_output
    \/ Mapping_update

SpecIdentity == InitIdentity /\ [][NextIdentity]_vars

(***************************************************************************)
(* Updates of a wired Mapping projection while its sender changes: the     *)
(* mechanism that owns the sender executes and assigns a new value, of the *)
(* same shape, to its output state.                                        *)
(***************************************************************************)
\* The values of the shape of value, over Entries
SameShape(value) ==
    IF value.dim = 1
    THEN {Vec(v) : v \in [1..Len(value.rows[1]) -> Entries]}
    ELSE {value}

SenderValues == {Vec(v) : v \in SenderVectors}

Mechanism_update(s, v) ==
    /\ proj.outcome # "running"
    /\ states[s].class = "MechanismOutputState"
    /\ v \in SameShape(states[s].value)
    /\ states' = [states EXCEPT ![s].value = v]
    /\ UNCHANGED <<configurationMechanismNames, proj, nProjections, returned,
                   updates>>
    /\ UNCHANGED <<utilityVars, packageVars>>

NextUpdate ==
    \/ \E sender \in {"outB", "B"}, receiver \in {"B", "inB"},
          transform \in {"LinearMatrixIdentity", "Linear"} :
          Projection_init("Mapping", sender, receiver,
                          kwProjectionSenderDefault, transform,
                          NotImplementedValue)
    \/ validate_params
    \/ instantiate_sender
    \/ instantiate_receiver
    \/ instantiate_transform
    \/ reconcile_output
    \/ Mapping_update
    \/ \E v \in SenderValues : Mechanism_update("outB", v)

SpecUpdate == Init /\ [][NextUpdate]_vars

(***************************************************************************)
(* Utility functions constructed and called on their own.  The params of   *)
(* a function are maps from names to values: paramClassDefaults of the     *)
(* class, paramInstanceDefaults of the instance, paramsCurrent of a call.  *)
(***************************************************************************)
\* Contradiction.Manner
OBSEQUIOUS == 0

CONTRARIAN == 1

Manner == {OBSEQUIOUS, CONTRARIAN}

\* Integrator.Weightings
LINEAR == 0
SCALED == 1
TIME_AVERAGED == 2
Weightings == {LINEAR, SCALED, TIME_AVERAGED}

\* Arithmetic.Operation
SUM == 0
PRODUCT == 1
Operation == {SUM, PRODUCT}

\* kwWeights given as a list or as an np.ndarray of numbers
Weights(container, w) == [container |-> container, w |-> w]

paramClassDefaults(cls) ==
    IF cls = "Linear"
    THEN [SLOPE |-> 1, INTERCEPT |-> 0, kwFunctionOutputTypeConversion |-> TRUE]
    ELSE IF cls = "LinearMatrix"
    THEN [Matrix |-> kwIdentityMatrix, kwFunctionOutputTypeConversion |-> FALSE]
    ELSE IF cls = "Integrator"
    THEN [RATE |-> 1, WEIGHTING |-> LINEAR,
          kwFunctionOutputTypeConversion |-> FALSE]
    ELSE IF cls = "Arithmetic"
    THEN [WEIGHTS |-> NotImplementedValue, OFFSET |-> 0, SCALE |-> 1,
          OPERATION |-> SUM, kwFunctionOutputTypeConversion |-> FALSE]
    ELSE [PROPENSITY |-> CONTRARIAN, PERTINACITY |-> 10,
          kwFunctionOutputTypeConversion |-> FALSE]

\* The params of overrides laid over those of defaults
Merge(defaults, overrides) ==
    [k \in DOMAIN defaults \cup DOMAIN overrides |->
        IF k \in DOMAIN overrides THEN overrides[k] ELSE defaults[k]]

\* Faulty variant: a param that is not listed is admitted
Function_validate_params_open(cls, request_set) == "none"

\* Function.validate_params: each param has to be listed in
\* paramClassDefaults of the class
Function_validate_params(cls, request_set) ==
    IF DOMAIN request_set \subseteq DOMAIN paramClassDefaults(cls)
    THEN "none"
    ELSE "FunctionError"

\* Contradiction.validate_params: its test that a param is legal compares
\* the name with the names of request_set itself and never fails; the
\* values of propensity and pertinacity are tested, then super is called
Contradiction_validate_params(request_set) ==
    IF \/ /\ "PROPENSITY" \in DOMAIN request_set
          /\ request_set.PROPENSITY \notin Manner
       \/ /\ "PERTINACITY" \in DOMAIN request_set
          /\ request_set.PERTINACITY \notin 0..10
    THEN "UtilityError"
    ELSE Function_validate_params("Contradiction", request_set)

\* The truth value Python gives to a weights param in "if weights": "yes",
\* "no", or ValueError for an np.ndarray of more than one element
\* (NotImplemented is true, an empty list is false)
Truth(weights) ==
    IF weights = NotImplementedValue THEN "yes"
    ELSE IF weights.container = "list"
    THEN IF Len(weights.w) > 0 THEN "yes" ELSE "no"
    ELSE IF Len(weights.w) > 1 THEN "ValueError"
    ELSE IF Len(weights.w) = 1 /\ weights.w[1] # 0 THEN "yes" ELSE "no"

\* Arithmetic.validate_params: super, then weights that are given and true
\* are to be converted by np.atleast, which numpy does not have; the
\* operation has to be SUM or PRODUCT. The weights and operation tested are
\* those of the target set: those of request_set, else the defaults, which
\* never hold weights that are true (no such weights pass this test).
Arithmetic_validate_params(request_set) ==
    LET e == Function_validate_params("Arithmetic", request_set)
        target_set == Merge(paramClassDefaults("Arithmetic"), request_set)
        weights == target_set.WEIGHTS
    IN  IF e # "none" THEN e
        ELSE IF Truth(weights) = "ValueError" THEN "ValueError"
        ELSE IF Truth(weights) = "yes" /\ weights # NotImplementedValue
        THEN "AttributeError"
        ELSE IF target_set.OPERATION \notin Operation THEN "UtilityError"
        ELSE "none"

Utility_validate_params(cls, request_set) ==
    IF cls = "Contradiction"
    THEN Contradiction_validate_params(request_set)
    ELSE IF cls = "Arithmetic"
    THEN Arithmetic_validate_params(request_set)
    ELSE Function_validate_params(cls, request_set)

\* Function.__init__ of a utility function: the params given are validated
\* and laid over paramClassDefaults as paramInstanceDefaults, which are
\* then the params in effect; Linear.__init__ then assigns None to
\* functionOutputType
Utility_init(cls, variable, param_defaults) ==
    /\ fn.outcome = "none"
    /\ LET e == Utility_validate_params(cls, param_defaults)
           f == [NoFunction EXCEPT !.cls = cls,
                                   !.variable = variable,
                                   !.param_defaults = param_defaults]
           mode == set_functionOutputType(cls, variable, None, None)
       IN  fn' = IF e # "none"
                 THEN [f EXCEPT !.outcome = "failed", !.error = e]
                 ELSE IF cls = "Linear" /\ mode.err # "none"
                 THEN [f EXCEPT !.outcome = "failed", !.error = mode.err]
                 ELSE [f EXCEPT
                         !.outcome = "ok",
                         !.paramInstanceDefaults =
                             Merge(paramClassDefaults(cls), param_defaults),
                         !.paramsCurrent =
                             Merge(paramClassDefaults(cls), param_defaults)]
    /\ call' = NoCall
    /\ UNCHANGED <<projectionVars, packageVars>>

\* Faulty variant: the params of a call stay in effect for the calls after it
check_args_sticky(f, params) ==
    LET e == Utility_validate_params(f.cls, params)
    IN  IF e # "none"
        THEN [err |-> e, paramsCurrent |-> f.paramsCurrent]
        ELSE [err |-> "none", paramsCurrent |-> Merge(f.paramsCurrent, params)]

\* Function.check_args: the params of the call, if any, are validated and
\* laid over paramInstanceDefaults for this call; with none given the
\* params in effect are paramInstanceDefaults
check_args(f, params) ==
    IF params = NoParams
    THEN [err |-> "none", paramsCurrent |-> f.paramInstanceDefaults]
    ELSE LET e == Utility_validate_params(f.cls, params)
         IN  IF e # "none"
             THEN [err |-> e, paramsCurrent |-> f.paramsCurrent]
             ELSE [err |-> "none",
                   paramsCurrent |-> Merge(f.paramInstanceDefaults, params)]

\* Contradiction.execute, for the value randint(-10, 10) gives
Contradiction_execute(propensity, pertinacity, whim) ==
    IF propensity = OBSEQUIOUS
    THEN Ok(Num(IF whim < pertinacity THEN 1 ELSE 0))
    ELSE IF propensity = CONTRARIAN
    THEN Ok(Num(IF whim > pertinacity THEN 1 ELSE 0))
    ELSE Raise("UtilityError")

\* sum and reduce(mul, ..., 1) over the rows of a 2-D variable, by column
RECURSIVE SumRows(_, _)
SumRows(rows, j) ==
    IF rows = <<>> THEN 0 ELSE Head(rows)[j] + SumRows(Tail(rows), j)

RECURSIVE MulRows(_, _)
MulRows(rows, j) ==
    IF rows = <<>> THEN 1 ELSE Head(rows)[j] * MulRows(Tail(rows), j)

\* Arithmetic.execute: a variable of fewer than two dimensions is scaled and
\* offset element by element; else weights that are given and true have to
\* be as many as the variable has rows and multiply them, and the rows are
\* added (then scaled and offset) or multiplied
Arithmetic_execute(variable, weights, operation, offset, scale) ==
    LET applied == Truth(weights) = "yes" /\ weights # NotImplementedValue
        rows == IF applied /\ Len(weights.w) = Len(variable.rows)
                THEN [i \in 1..Len(variable.rows) |->
                        [j \in 1..Len(variable.rows[i]) |->
                           variable.rows[i][j] * weights.w[i]]]
                ELSE variable.rows
        columns == 1..Len(variable.rows[1])
    IN  IF variable.dim < 2
        THEN Ok([variable EXCEPT
                   !.rows = LinearRows(variable.rows, scale, offset)])
        ELSE IF Truth(weights) = "ValueError"
        THEN Raise("ValueError")
        ELSE IF applied /\ Len(weights.w) # Len(variable.rows)
        THEN Raise("UtilityError")
        ELSE IF operation = SUM
        THEN Ok(Vec([j \in columns |-> SumRows(rows, j) * scale + offset]))
        ELSE IF operation = PRODUCT
        THEN Ok(Vec([j \in columns |-> MulRows(rows, j)]))
        ELSE Raise("UtilityError")

\* Faulty variant: the rate is kept within 0..1
Integrator_execute_clamped(old_value, new_value, rate, weighting) ==
    LET r == IF rate < 0 THEN 0 ELSE IF rate > 1 THEN 1 ELSE rate
    IN  IF weighting = LINEAR
        THEN Ok(Num(old_value + r))
        ELSE IF weighting = SCALED
        THEN Ok(Num(old_value + new_value * r))
        ELSE IF weighting = TIME_AVERAGED
        THEN Ok(Num((1 - r) * old_value + r * new_value))
        ELSE Ok(Num(new_value))

\* Integrator.execute on variable [old_value, new_value]
Integrator_execute(old_value, new_value, rate, weighting) ==
    IF weighting = LINEAR
    THEN Ok(Num(old_value + rate))
    ELSE IF weighting = SCALED
    THEN Ok(Num(old_value + new_value * rate))
    ELSE IF weighting = TIME_AVERAGED
    THEN Ok(Num((1 - rate) * old_value + rate * new_value))
    ELSE Ok(Num(new_value))

\* execute of the class of f with the params in effect
Utility_execute_result(f, paramsCurrent, whim) ==
    IF f.cls = "Linear"
    THEN Linear_execute(f.variable, paramsCurrent.SLOPE,
                        paramsCurrent.INTERCEPT,
                        functionOutputType("Linear", f.stored))
    ELSE IF f.cls = "Integrator"
    THEN Integrator_execute(f.variable.rows[1][1], f.variable.rows[1][2],
                            paramsCurrent.RATE, paramsCurrent.WEIGHTING)
    ELSE IF f.cls = "Arithmetic"
    THEN Arithmetic_execute(f.variable, paramsCurrent.WEIGHTS,
                            paramsCurrent.OPERATION, paramsCurrent.OFFSET,
                            paramsCurrent.SCALE)
    ELSE Contradiction_execute(paramsCurrent.PROPENSITY,
                               paramsCurrent.PERTINACITY, whim)

\* A call of execute(params = params) on fn
Utility_execute(params, whim) ==
    /\ fn.outcome = "ok"
    /\ call.n < MaxCalls
    /\ LET c == check_args(fn, params)
       IN  /\ fn' = [fn EXCEPT !.paramsCurrent = c.paramsCurrent]
           /\ call' = [n |-> call.n + 1,
                       op |-> "execute",
                       params |-> params,
                       previous |-> call.params,
                       value |-> None,
                       before |-> fn.stored,
                       result |-> IF c.err # "none" THEN Raise(c.err)
                                  ELSE Utility_execute_result(
                                           fn, c.paramsCurrent, whim)]
    /\ UNCHANGED <<projectionVars, packageVars>>

\* The params given at construction and in calls
ParamSets ==
    {NoParams, [SLOPE |-> 2], [SLOPE |-> 3, INTERCEPT |-> 1],
     [bogus |-> 1], [SLOPE |-> 2, bogus |-> 1],
     [PERTINACITY |-> 3], [PERTINACITY |-> 11], [PROPENSITY |-> OBSEQUIOUS]}

Whims == {-10, 3, 10}

NextParams ==
    \/ \E variable \in {Vec(<<2>>), Vec(<<1, 3>>)}, params \in ParamSets :
          Utility_init("Linear", variable, params)
    \/ \E params \in ParamSets : Utility_init("Contradiction", Num(0), params)
    \/ \E params \in ParamSets, whim \in Whims : Utility_execute(params, whim)

SpecParams == Init /\ [][NextParams]_vars

(***************************************************************************)
(* Sequences of constructions: Mapping projections are constructed one     *)
(* after another between the same few senders and receivers.               *)
(***************************************************************************)
NextSequence ==
    \/ \E sender \in {"outA", "A", "outB", "inA"}, receiver \in {"A", "inB"} :
          Projection_init_in_sequence("Mapping", sender, receiver,
                                      kwProjectionSenderDefault, "Linear",
                                      NotImplementedValue)
    \/ validate_params
    \/ instantiate_sender
    \/ instantiate_receiver
    \/ instantiate_transform
    \/ reconcile_output

SpecSequence == Init /\ [][NextSequence]_vars

(***************************************************************************)
(* The sender of a projection: the sender argument, kwProjectionSender     *)
(* and the default of the class, each valid or not.                        *)
(***************************************************************************)
NextSender ==
    \/ \E type \in {"Mapping", "Unresolved"},
          sender \in {NotImplemented, "outA", "A", "inA", "P", "bad"},
          receiver \in {"A", "inB"},
          senderParam \in {kwProjectionSenderDefault, "outB", "B",
                           "MechanismInputState", "bad", "worse"} :
          Projection_init(type, sender, receiver, senderParam, "Linear",
                          NotImplementedValue)
    \/ validate_params
    \/ instantiate_sender
    \/ instantiate_receiver
    \/ instantiate_transform
    \/ reconcile_output

SpecSender == Init /\ [][NextSender]_vars

(***************************************************************************)
(* A sender whose value is a bare number: the transform's output is then   *)
(* a bare number, and is reconciled with receivers of every shape.         *)
(***************************************************************************)
NumberSenderValues == {Num(0), Num(1), Num(5)}

\* The state after the mechanisms are built, outA holding a bare number
InitNumberSender ==
    /\ package = PackageInitialised
    /\ fn = NoFunction
    /\ call = NoCall
    /\ \E value \in NumberSenderValues :
          states = [InitialStates EXCEPT !["outA"].value = value]
    /\ configurationMechanismNames = <<>>
    /\ proj = IdleProjection
    /\ nProjections = 0
    /\ returned = NothingReturned
    /\ updates = 0

NextCoercion ==
    \/ \E type \in ProjectionTypes, sender \in {"outA", "A"},
          receiver \in {"A", "inA", "inB", "inN"}, ownOutput \in OwnOutputs :
          Projection_init(type, sender, receiver, kwProjectionSenderDefault,
                          "Linear", ownOutput)
    \/ validate_params
    \/ instantiate_sender
    \/ instantiate_receiver
    \/ instantiate_transform
    \/ reconcile_output

SpecCoercion == InitNumberSender /\ [][NextCoercion]_vars

(***************************************************************************)
(* Mapping projections between senders and receivers of every shape, with  *)
(* each transform.                                                         *)
(***************************************************************************)
NextLengths ==
    \/ \E sender \in {"outA", "outM", "outW", "procIn", "B"},
          receiver \in ReceiverArgs, transform \in Transforms :
          Projection_init("Mapping", sender, receiver,
                          kwProjectionSenderDefault, transform,
                          NotImplementedValue)
    \/ validate_params
    \/ instantiate_sender
    \/ instantiate_receiver
    \/ instantiate_transform
    \/ reconcile_output

SpecLengths == Init /\ [][NextLengths]_vars

(***************************************************************************)
(* The output type of a Linear function: assigned, then used by execute.   *)
(***************************************************************************)
\* An assignment fn.functionOutputType = value
Utility_set_functionOutputType(value) ==
    /\ fn.outcome = "ok"
    /\ call.n < MaxCalls
    /\ LET mode == set_functionOutputType(fn.cls, fn.variable, fn.stored, value)
       IN  /\ fn' = [fn EXCEPT !.stored = mode.stored]
           /\ call' = [n |-> call.n + 1,
                       op |-> "set",
                       params |-> NoParams,
                       previous |-> call.params,
                       value |-> value,
                       before |-> fn.stored,
                       result |-> IF mode.err # "none" THEN Raise(mode.err)
                                  ELSE NothingReturned]
    /\ UNCHANGED <<projectionVars, packageVars>>

UtilityFunctionOutputType == {RAW_NUMBER, NP_1D_ARRAY, NP_2D_ARRAY}

\* Variables of every shape: a number, vectors, matrices of one and two rows
OutputTypeVariables ==
    {Num(7), Vec(<<>>), Vec(<<7>>), Vec(<<7, 8>>), Vec(<<7, 8, 9>>),
     Mat(<<<<7>>>>), Mat(<<<<7, 8>>>>), Mat(<<<<7>>, <<8>>>>),
     Mat(<<<<7, 8>>, <<9, 10>>>>)}

NextOutputType ==
    \/ \E variable \in OutputTypeVariables, params \in {NoParams, [SLOPE |-> 2]} :
          Utility_init("Linear", variable, params)
    \/ \E value \in UtilityFunctionOutputType \cup {None} :
          Utility_set_functionOutputType(value)
    \/ \E params \in {NoParams, [INTERCEPT |-> 1]} : Utility_execute(params, 0)

SpecOutputType == Init /\ [][NextOutputType]_vars

(***************************************************************************)
(* Integrator over bounded integers.                                       *)
(***************************************************************************)
\* old, new and rate are drawn from -MaxValue..MaxValue
MaxValue == 3

IntegratorValues == (0 - MaxValue)..MaxValue

NextIntegrator ==
    \/ \E old_value \in IntegratorValues, new_value \in IntegratorValues,
          weighting \in Weightings :
          Utility_init("Integrator", Vec(<<old_value, new_value>>),
                       [WEIGHTING |-> weighting])
    \/ \E rate \in IntegratorValues : Utility_execute([RATE |-> rate], 0)
    \/ Utility_execute(NoParams, 0)

SpecIntegrator == Init /\ [][NextIntegrator]_vars

(***************************************************************************)
(* Arithmetic over lists of bounded integers, with weights.                *)
(***************************************************************************)
\* the most terms of a variable, and the most weights
MaxTerms == 3

TermValues == {2, 3, 4}

WeightValues == {0, 1}

TermLists == UNION {[1..n -> TermValues] : n \in 1..MaxTerms}

\* The variable as the function may hold a list of numbers: as a 1-D array,
\* as a 2-D array of one row, or as a 2-D array of one row for each term
ArithmeticVariables ==
    {Vec(t) : t \in TermLists}
    \cup {Mat(<<t>>) : t \in TermLists}
    \cup {Mat([i \in 1..Len(t) |-> <<t[i]>>]) : t \in TermLists}

WeightLists == UNION {[1..n -> WeightValues] : n \in 0..MaxTerms}

WeightParams ==
    {Weights("list", w) : w \in WeightLists}
    \cup {Weights("np.ndarray", w) : w \in {<<>>, <<0>>, <<1>>, <<1, 1>>}}

ArithmeticParamSets ==
    {NoParams}
    \cup {[WEIGHTS |-> w] : w \in WeightParams}
    \cup {[OPERATION |-> operation, SCALE |-> scale, OFFSET |-> offset] :
             operation \in Operation, scale \in {1, 2}, offset \in {0, 5}}

NextArithmetic ==
    \/ \E variable \in ArithmeticVariables, params \in ArithmeticParamSets :
          Utility_init("Arithmetic", variable, params)
    \/ \E params \in {NoParams, [WEIGHTS |-> Weights("list", <<>>)],
                       [WEIGHTS |-> Weights("list", <<1, 1>>)]} :
          Utility_execute(params, 0)

SpecArithmetic == Init /\ [][NextArithmetic]_vars

(***************************************************************************)
(* LinearMatrix constructed on its own, with kwMatrix and kwReceiver.      *)
(***************************************************************************)
\* the longest side of a matrix, a sender and a receiver
MaxMatrixDim == 5

\* LinearMatrix.validate_params: err, self.receiver and the target set
LinearMatrix_validate_params(variable, request_set) ==
    LET sender_len == len(variable)
        e == Function_validate_params("LinearMatrix", request_set)
        target_set == Merge(paramClassDefaults("LinearMatrix"), request_set)
        declared == "Receiver" \in DOMAIN target_set
        receiver == IF declared THEN target_set.Receiver ELSE variable
        receiver_len == len(receiver)
        matrix == target_set.Matrix
        param_set ==
            IF \/ ~declared
               \/ matrix.kind = "IdentityMatrix" /\ receiver_len # sender_len
            THEN Merge(target_set, [Receiver |-> variable])
            ELSE target_set
        bad == /\ matrix.kind = "matrix"
               /\ \/ Len(matrix.matrix) # sender_len
                  \/ Len(matrix.matrix[1]) # receiver_len
    IN  IF e # "none"
        THEN [err |-> e, receiver |-> NotImplementedValue,
              param_set |-> NoParams]
        ELSE IF bad
        THEN [err |-> "UtilityError", receiver |-> receiver,
              param_set |-> param_set]
        ELSE [err |-> "none", receiver |-> receiver, param_set |-> param_set]

\* LinearMatrix.__init__: Function.__init__ validates the variable and the
\* params, builds the identity matrix before the execute method is
\* instantiated, and the matrix of kwMatrix is built when it has returned
LinearMatrix_init_result(variable, param_defaults) ==
    LET f == [NoFunction EXCEPT !.cls = "LinearMatrix",
                                !.variable = variable,
                                !.param_defaults = param_defaults]
        v == LinearMatrix_validate_params(variable, param_defaults)
        first == implement_matrix(kwIdentityMatrix, len(variable),
                                  len(v.receiver))
        last == implement_matrix(v.param_set.Matrix, len(variable),
                                 len(v.receiver))
    IN  IF ~LinearMatrix_validate_variable(variable)
        THEN [f EXCEPT !.outcome = "failed", !.error = "UtilityError"]
        ELSE IF v.err # "none"
        THEN [f EXCEPT !.outcome = "failed", !.error = v.err]
        ELSE IF first.err # "none"
        THEN [f EXCEPT !.outcome = "failed", !.error = first.err,
                       !.receiver = v.receiver]
        ELSE IF last.err # "none"
        THEN [f EXCEPT !.outcome = "failed", !.error = last.err,
                       !.receiver = v.receiver]
        ELSE [f EXCEPT !.outcome = "ok",
                       !.receiver = v.receiver,
                       !.paramInstanceDefaults = v.param_set,
                       !.paramsCurrent = v.param_set,
                       !.matrix = last.matrix]

LinearMatrix_init(variable, param_defaults) ==
    /\ fn.outcome = "none"
    /\ fn' = LinearMatrix_init_result(variable, param_defaults)
    /\ call' = NoCall
    /\ UNCHANGED <<projectionVars, packageVars>>

\* A vector of n zeros, and a matrix of the shape given
Zeros(n) == Vec([i \in 1..n |-> 0])

MatrixOfShape(rows, cols) == [i \in 1..rows |-> [j \in 1..cols |-> i + j]]

MatrixSpecs ==
    {kwIdentityMatrix, FillerSpec(2)}
    \cup {ExplicitMatrix(container, MatrixOfShape(rows, cols)) :
             container \in {"list", "np.matrix"},
             rows \in 1..MaxMatrixDim, cols \in 1..MaxMatrixDim}

MatrixParamSets ==
    {NoParams}
    \cup {[Matrix |-> m] : m \in MatrixSpecs}
    \cup {[Receiver |-> Zeros(r)] : r \in 1..MaxMatrixDim}
    \cup {[Matrix |-> m, Receiver |-> Zeros(r)] :
             m \in MatrixSpecs, r \in 1..MaxMatrixDim}

NextMatrix ==
    \E sender_len \in 1..MaxMatrixDim, params \in MatrixParamSets :
        LinearMatrix_init(Zeros(sender_len), params)

SpecMatrix == Init /\ [][NextMatrix]_vars

(***************************************************************************)
(* Calls of LinearMatrix.execute, with and without kwMatrix in the params  *)
(* of the call.                                                            *)
(***************************************************************************)
\* check_args of a LinearMatrix: the params of the call are validated by
\* LinearMatrix.validate_params over the params in effect; self.matrix is
\* not assigned
LinearMatrix_check_args(f, params) ==
    LET e == Function_validate_params("LinearMatrix", params)
        target_set == Merge(f.paramInstanceDefaults, params)
        matrix == target_set.Matrix
        bad == /\ matrix.kind = "matrix"
               /\ \/ Len(matrix.matrix) # len(f.variable)
                  \/ Len(matrix.matrix[1]) # len(target_set.Receiver)
    IN  IF params = NoParams
        THEN [err |-> "none", paramsCurrent |-> f.paramInstanceDefaults]
        ELSE IF e # "none"
        THEN [err |-> e, paramsCurrent |-> f.paramsCurrent]
        ELSE IF bad
        THEN [err |-> "UtilityError", paramsCurrent |-> f.paramsCurrent]
        ELSE [err |-> "none", paramsCurrent |-> target_set]

\* the matrix LinearMatrix.execute multiplies by: self.matrix
LinearMatrix_matrix_used(f, paramsCurrent) == f.matrix

\* A call of LinearMatrix.execute(params = params) on fn
LinearMatrix_execute_call(params) ==
    /\ fn.outcome = "ok"
    /\ fn.cls = "LinearMatrix"
    /\ call.n < MaxCalls
    /\ LET c == LinearMatrix_check_args(fn, params)
       IN  /\ fn' = [fn EXCEPT !.paramsCurrent = c.paramsCurrent]
           /\ call' = [n |-> call.n + 1,
                       op |-> "execute",
                       params |-> params,
                       previous |-> call.params,
                       value |-> None,
                       before |-> fn.stored,
                       result |-> IF c.err # "none" THEN Raise(c.err)
                                  ELSE LinearMatrix_execute(
                                           fn.variable,
                                           LinearMatrix_matrix_used(
                                               fn, c.paramsCurrent))]
    /\ UNCHANGED <<projectionVars, packageVars>>

\* The variables of the functions called, and the matrices given in calls
CalledVariables == {Vec(<<1>>), Vec(<<1, 2>>), Vec(<<1, 2, 3>>)}

CallMatrixSpecs ==
    {kwIdentityMatrix, FillerSpec(2)}
    \cup {ExplicitMatrix(container, MatrixOfShape(n, n)) :
             container \in {"list", "np.matrix"}, n \in 1..2}

NextMatrixCall ==
    \/ \E variable \in CalledVariables,
          params \in {NoParams} \cup {[Matrix |-> m] : m \in CallMatrixSpecs} :
          LinearMatrix_init(variable, params)
    \/ \E params \in {NoParams} \cup {[Matrix |-> m] : m \in CallMatrixSpecs} :
          LinearMatrix_execute_call(params)

SpecMatrixCall == Init /\ [][NextMatrixCall]_vars

(***************************************************************************)
(* The package is initialised with every combination of declared defaults. *)
(***************************************************************************)
InitPackage ==
    /\ \E given \in [{"Mapping", "ControlSignal"} -> GivenSenders] :
          package = [given |-> given, projection_params |-> given,
                     pc |-> 1, error |-> "none"]
    /\ fn = NoFunction
    /\ call = NoCall
    /\ states = InitialStates
    /\ configurationMechanismNames = <<>>
    /\ proj = IdleProjection
    /\ nProjections = 0
    /\ returned = NothingReturned
    /\ updates = 0

NextPackage == Package_resolve_next

SpecPackage == InitPackage /\ [][NextPackage]_vars

(***************************************************************************)
(* Properties.                                                             *)
(***************************************************************************)
\* The stages of a construction that have been started, and ended
Started(stage) == \E i \in 1..Len(proj.started) : proj.started[i] = stage

\* The stage started last has ended with an exception
FailedIn(stage) ==
    /\ proj.outcome = "failed"
    /\ Len(proj.started) > 0
    /\ proj.started[Len(proj.started)] = stage

\* The stage was started and returned without an exception
Succeeded(stage) == Started(stage) /\ ~FailedIn(stage)

StageOrder ==
    <<"validate_params", "instantiate_sender", "instantiate_receiver",
      "instantiate_transform", "reconcile_output">>

\* C1: in every construction the stages started so far are, in order, a
\* prefix of validate_params, instantiate_sender, instantiate_receiver,
\* transform instantiation, output reconciliation: each stage is started once,
\* after the one before it has returned, and a complete construction has
\* run all five.
C1_StagesInOrder ==
    /\ Len(proj.started) <= Len(StageOrder)
    /\ \A i \in 1..Len(proj.started) : proj.started[i] = StageOrder[i]
    /\ proj.outcome = "done" => proj.started = StageOrder
    /\ proj.outcome = "running" => Len(proj.started) = proj.pc - 1

C1_Witness == proj.outcome = "done" /\ proj.started = StageOrder

\* The projection is in no list of the states
Unregistered(id) ==
    \A s \in DOMAIN states :
        /\ \A i \in 1..Len(states[s].sendsToProjections) :
               states[s].sendsToProjections[i] # id
        /\ \A i \in 1..Len(states[s].receivesFromProjections) :
               states[s].receivesFromProjections[i] # id

\* C2: when a construction has failed, the sendsToProjections and
\* receivesFromProjections lists of every state are as they were before the
\* construction started.
C2_FailureLeavesListsUnchanged ==
    proj.outcome = "failed" =>
        \A s \in DOMAIN proj.statesBefore :
            /\ states[s].sendsToProjections =
                   proj.statesBefore[s].sendsToProjections
            /\ states[s].receivesFromProjections =
                   proj.statesBefore[s].receivesFromProjections

\* A sender argument that is an instance or a class of Mechanism or
\* MechanismState
MechanismOrStateSpec(x) ==
    \/ x \in Mechanisms
    \/ x \in DOMAIN proj.statesBefore
    \/ x \in {"MechanismOutputState", "ProcessInputState",
              "MechanismInputState", "Mechanism"}

ReceiverVariable == states[proj.receiver].value

\* The case of the conversion to a raw number: the output of the transform
\* does not suit the receiver, the receiver's variable is a number and the
\* output has length 1
RawNumberCase ==
    /\ Started("reconcile_output")
    /\ ~iscompatible(proj.naturalOutput, ReceiverVariable)
    /\ IsNumber(ReceiverVariable)
    /\ HasLen(proj.naturalOutput)
    /\ len(proj.naturalOutput) = 1

\* The transform executed again with the output type now stored
Reexecuted ==
    ExecuteTransform(proj.transform, proj.variable, proj.matrix,
                     proj.functionOutputType)

ReexecutedCompatible ==
    /\ Reexecuted.err = "none"
    /\ iscompatible(ReceiverVariable, Reexecuted.val)

OwnExecuteCompatible ==
    /\ proj.self_execute_method # NotImplemented
    /\ iscompatible(proj.self_execute_output, ReceiverVariable)

\* C5: after the reconciliation, if neither the output of the configured
\* transform, nor its output after the conversion tried, nor the output of
\* the projection's own execute method is compatible with the receiver's
\* variable, the construction has failed with ProjectionError.
C5_IncompatibleFailsWithProjectionError ==
    (/\ Started("reconcile_output")
     /\ ~iscompatible(proj.naturalOutput, ReceiverVariable)
     /\ ~ReexecutedCompatible
     /\ ~OwnExecuteCompatible) =>
        /\ proj.outcome = "failed"
        /\ proj.error = "ProjectionError"

\* The position of the receiver's mechanism in the configuration of the
\* Process, as it was when the projection was constructed (0: not listed)
ReceiverPosition ==
    LET owner == states[resolved_receiver(proj.receiverArg)].ownerMechanism
        cfg == proj.configurationBefore
    IN  IF \E i \in 1..Len(cfg) : cfg[i] = owner
        THEN CHOOSE i \in 1..Len(cfg) : cfg[i] = owner
        ELSE 0

\* C6: when a Mapping projection whose sender is a ProcessInputState has run
\* instantiate_sender, it has passed if the receiver belongs to the first
\* mechanism of the configuration, and it has failed with ProjectionError if
\* the receiver belongs to a mechanism at another position.
C6_ProcessInputFeedsFirstOnly ==
    (/\ proj.type = "Mapping"
     /\ Started("instantiate_sender")
     /\ proj.senderSpec = "procIn") =>
        /\ ReceiverPosition = 1 => ~FailedIn("instantiate_sender")
        /\ ReceiverPosition > 1 =>
               /\ FailedIn("instantiate_sender")
               /\ proj.error = "ProjectionError"

\* The identity matrix of n rows
IdentityMatrix(n) == [i \in 1..n |-> [j \in 1..n |-> IF i = j THEN 1 ELSE 0]]

\* C7: a default Mapping projection from a sender whose value is a vector v
\* of length n to a receiver of length n is constructed without an error,
\* its matrix is the n-by-n identity, its value is v, and update returns v;
\* for n = 1 the matrix is [[1]] and the value 5 of the sender gives 5.
C7_IdentityRoundTrip ==
    LET v == states["outA"].value
    IN  /\ proj.outcome # "failed"
        /\ Started("instantiate_transform") =>
               /\ proj.matrix.m = IdentityMatrix(len(v))
               /\ Len(proj.matrix.m) = len(v)
               /\ proj.value = v
               /\ v = Vec(<<5>>) => proj.matrix.m = <<<<1>>>>
        /\ returned # NothingReturned =>
               /\ returned = Ok(v)
               /\ v = Vec(<<5>>) => returned.val.rows = <<<<5>>>>

C7_Witness ==
    /\ proj.outcome = "done"
    /\ states["outA"].value = Vec(<<5, -1, 0>>)
    /\ proj.matrix.m = <<<<1, 0, 0>>, <<0, 1, 0>>, <<0, 0, 1>>>>
    /\ returned = Ok(Vec(<<5, -1, 0>>))

\* C8: once instantiate_receiver has run, the receiver of the projection is
\* one State: the primary input state of the Mechanism if a Mechanism was
\* given, and the State given if a State was given.
C8_ReceiverIsOneState ==
    Started("instantiate_receiver") =>
        /\ proj.receiver \in DOMAIN states
        /\ states[proj.receiver].class \in StateClasses
        /\ IsMechanism(proj.receiverArg) =>
               proj.receiver = inputState[proj.receiverArg]
        /\ proj.receiverArg \in DOMAIN states =>
               proj.receiver = proj.receiverArg

C8_Witness ==
    /\ Started("instantiate_receiver")
    /\ proj.receiverArg = "A"
    /\ proj.receiver = "inA"
    /\ proj.outcome = "done"

\* A sender that is neither an output-state class, nor a Mechanism, nor an
\* output state
OtherSender(x) ==
    /\ ~IsMechanism(x)
    /\ IF IsClass(x) THEN x \notin OutputStateClasses
       ELSE ~(x \in DOMAIN proj.statesBefore
                /\ proj.statesBefore[x].class \in OutputStateClasses)

C10_VariableFollowsSender ==
    Succeeded("instantiate_sender") =>
        /\ iscompatible(proj.variable, states[proj.sender].value)
        /\ proj.variable = states[proj.sender].value
        /\ IF proj.sender \in DOMAIN proj.statesBefore
           THEN states[proj.sender].value =
                    proj.statesBefore[proj.sender].value
           ELSE states[proj.sender].value = kwProjectionSenderValue

C10_Witness ==
    /\ Succeeded("instantiate_sender")
    /\ proj.sender \in DOMAIN proj.statesBefore
    /\ ~iscompatible(proj.variableBefore, states[proj.sender].value)
    /\ proj.variable = states[proj.sender].value

\* C11: after the reconciliation, if the output of the configured transform
\* is not compatible with the receiver's variable, also not after the
\* conversion tried, and the output of the projection's own execute method
\* is, then the construction is complete and the execute method of the
\* projection is its own, not the configured one.
C11_OwnExecutePreferred ==
    (/\ Started("reconcile_output")
     /\ ~iscompatible(proj.naturalOutput, ReceiverVariable)
     /\ ~ReexecutedCompatible
     /\ OwnExecuteCompatible) =>
        /\ proj.outcome = "done"
        /\ proj.execute = proj.self_execute_method
        /\ proj.execute # "configured"
        /\ proj.value = proj.self_execute_output

\* C12: every call of update on a wired Mapping projection whose transform
\* is the identity returns the value the sender has when the call is made,
\* whatever the value was when the projection was wired or when update was
\* called before, and leaves every state, the receiver's value included, as
\* it is.
C12_UpdatePullsCurrentValue ==
    [][updates' = updates + 1 =>
           /\ returned' = Ok(states[proj.sender].value)
           /\ states' = states]_vars

C12_Witness ==
    /\ updates = 2
    /\ returned = Ok(states[proj.sender].value)
    /\ returned.val # proj.variable
    /\ states[proj.sender].value # proj.statesBefore[proj.sender].value
    /\ states[proj.receiver].value = proj.statesBefore[proj.receiver].value

\* What Linear returns for a 1-D variable with the params given
LinearOf(variable, params) ==
    Ok(Vec([i \in 1..len(variable) |->
               variable.rows[1][i] * params.SLOPE + params.INTERCEPT]))

\* C13: the instance defaults of a function are, after any calls of
\* execute with or without params, those built when it was constructed; a
\* call with params computes its result from the instance defaults overlaid
\* with these params, and a call without params, also after a call with
\* params, computes its result from the instance defaults alone.
C13_OverridesForOneCall ==
    fn.outcome = "ok" =>
        /\ fn.paramInstanceDefaults =
               Merge(paramClassDefaults(fn.cls), fn.param_defaults)
        /\ (call.op = "execute" /\ call.params = NoParams) =>
               /\ fn.paramsCurrent = fn.paramInstanceDefaults
               /\ fn.cls = "Linear" =>
                      call.result = LinearOf(fn.variable,
                                             fn.paramInstanceDefaults)
        /\ (/\ call.op = "execute"
            /\ call.params # NoParams
            /\ call.result.err = "none"
            /\ fn.cls = "Linear") =>
               call.result =
                   LinearOf(fn.variable,
                            Merge(fn.paramInstanceDefaults, call.params))

C13_Witness ==
    /\ fn.outcome = "ok"
    /\ fn.cls = "Linear"
    /\ fn.variable = Vec(<<1, 3>>)
    /\ fn.param_defaults = [SLOPE |-> 2]
    /\ call.n = 2
    /\ call.previous = [SLOPE |-> 3, INTERCEPT |-> 1]
    /\ call.params = NoParams
    /\ call.result = Ok(Vec(<<2, 6>>))

\* The params have a name the class does not list in paramClassDefaults
HasUnlistedParam(cls, params) ==
    \E k \in DOMAIN params : k \notin DOMAIN paramClassDefaults(cls)

ExplicitGiven ==
    /\ fn.cls = "LinearMatrix"
    /\ fn.outcome # "none"
    /\ "Matrix" \in DOMAIN fn.param_defaults
    /\ fn.param_defaults.Matrix.kind = "matrix"

ReceiverDeclared == "Receiver" \in DOMAIN fn.param_defaults

\* C15: a LinearMatrix constructed with a matrix of numbers and a declared
\* receiver has failed with an error if the rows of the matrix are not as
\* many as the sender has entries or its columns not as many as the declared
\* receiver has, and is constructed with that matrix if both are.
\* implement_matrix, too, returns a matrix of the right shape as it was given.
C15_MatrixShapeEnforced ==
    /\ \A s, r \in 1..MaxMatrixDim, container \in {"list", "np.matrix"} :
           LET made == implement_matrix(
                           ExplicitMatrix(container, MatrixOfShape(s, r)), s, r)
           IN  made.err = "none" /\ made.matrix.m = MatrixOfShape(s, r)
    /\ (ExplicitGiven /\ ReceiverDeclared) =>
           LET m == fn.param_defaults.Matrix.matrix
               match == /\ Len(m) = len(fn.variable)
                        /\ Len(m[1]) = len(fn.param_defaults.Receiver)
           IN  /\ ~match => fn.outcome = "failed" /\ fn.error # "none"
               /\ match => fn.outcome = "ok" /\ fn.matrix.m = m

NumberCount(v) ==
    IF v.dim = 0 THEN 1
    ELSE IF v.dim = 1 THEN Len(v.rows[1])
    ELSE IF Len(v.rows) = 0 THEN 0
    ELSE Len(v.rows) * Len(v.rows[1])

\* C17: an assignment of RAW_NUMBER to functionOutputType of a function whose
\* variable holds more than one number raises UtilityError in the assignment
\* itself, and the mode stored before it is kept.
C17_RawNumberRefusedWhenAssigned ==
    (/\ call.op = "set"
     /\ call.value = RAW_NUMBER
     /\ NumberCount(fn.variable) > 1) =>
        /\ call.result.err = "UtilityError"
        /\ fn.stored = call.before

\* What the last call of execute computes before any conversion
NaturalOutput ==
    LET params == Merge(fn.paramInstanceDefaults, call.params)
    IN  [fn.variable EXCEPT
           !.rows = LinearRows(fn.variable.rows, params.SLOPE, params.INTERCEPT)]

ExecutedAs(outputType) ==
    /\ fn.cls = "Linear"
    /\ call.op = "execute"
    /\ call.before = outputType

\* C18: Linear.execute with RAW_NUMBER requested and a natural output [x]
\* returns x; with NP_1D_ARRAY requested and a natural output that is the
\* number x it returns [x]; with RAW_NUMBER requested and a natural output
\* of more than one number, as [7, 8], it returns no value but an error.
C18_ScalarAndLengthOneCoercion ==
    /\ (ExecutedAs(RAW_NUMBER) /\ NaturalOutput.dim = 1
        /\ len(NaturalOutput) = 1) =>
           call.result = Ok(Num(NaturalOutput.rows[1][1]))
    /\ (ExecutedAs(NP_1D_ARRAY) /\ NaturalOutput.dim = 0) =>
           call.result = Ok(Vec(NaturalOutput.rows[1]))
    /\ (ExecutedAs(RAW_NUMBER) /\ NaturalOutput.dim = 1
        /\ len(NaturalOutput) > 1) =>
           call.result.err # "none"

\* C19: Linear.execute with NP_1D_ARRAY requested raises UtilityError for a
\* 2-D variable of more than one row, returns the one row of a 2-D variable
\* of one row, and returns the 1-D result for a 1-D variable of any length.
C19_OneDimensionalCoercion ==
    ExecutedAs(NP_1D_ARRAY) =>
        /\ (fn.variable.dim = 2 /\ len(fn.variable) > 1) =>
               call.result = Raise("UtilityError")
        /\ (fn.variable.dim = 2 /\ len(fn.variable) = 1) =>
               call.result = Ok(Vec(NaturalOutput.rows[1]))
        /\ fn.variable.dim = 1 => call.result = Ok(NaturalOutput)

\* The last call was an execute of an Integrator with this weighting
Integrated(weighting) ==
    /\ fn.cls = "Integrator"
    /\ call.op = "execute"
    /\ fn.paramsCurrent.WEIGHTING = weighting

\* C20: Integrator.execute on [old, new] with rate returns old + rate under
\* LINEAR, whatever new is; old + rate * new under SCALED; and
\* (1 - rate) * old + rate * new under TIME_AVERAGED, which is old for rate 0
\* and new for rate 1. The rate is used as given, inside 0..1 or not.
C20_IntegratorPolicies ==
    (fn.cls = "Integrator" /\ call.op = "execute") =>
        LET old_value == fn.variable.rows[1][1]
            new_value == fn.variable.rows[1][2]
            rate == Merge(fn.paramInstanceDefaults, call.params).RATE
            value == call.result.val.rows[1][1]
        IN  /\ call.result.err = "none"
            /\ call.result.val.dim = 0
            /\ Integrated(LINEAR) => value = old_value + rate
            /\ Integrated(SCALED) => value = old_value + rate * new_value
            /\ Integrated(TIME_AVERAGED) =>
                   /\ value = (1 - rate) * old_value + rate * new_value
                   /\ rate = 0 => value = old_value
                   /\ rate = 1 => value = new_value

C20_Witness ==
    /\ Integrated(TIME_AVERAGED)
    /\ fn.variable = Vec(<<3, -2>>)
    /\ fn.paramsCurrent.RATE = 2
    /\ call.result = Ok(Num(-7))

\* The terms of the variable of fn, a list of numbers however it is held
TermsOf(variable) ==
    IF variable.dim = 2 /\ Len(variable.rows) > 1
    THEN [i \in 1..Len(variable.rows) |-> variable.rows[i][1]]
    ELSE variable.rows[1]

RECURSIVE WeightedSum(_, _)
WeightedSum(terms, w) ==
    IF terms = <<>> THEN 0
    ELSE Head(terms) * Head(w) + WeightedSum(Tail(terms), Tail(w))

RECURSIVE WeightedProduct(_, _)
WeightedProduct(terms, w) ==
    IF terms = <<>> THEN 1
    ELSE Head(terms) * Head(w) * WeightedProduct(Tail(terms), Tail(w))

\* fn is an Arithmetic constructed, or refused, with a list of weights
WeightsGiven ==
    /\ fn.cls = "Arithmetic"
    /\ fn.outcome # "none"
    /\ "WEIGHTS" \in DOMAIN fn.param_defaults
    /\ fn.param_defaults.WEIGHTS.container = "list"

\* C21: an Arithmetic given a list of numbers and as many weights is
\* constructed, and execute returns (the sum of term * weight) * scale +
\* offset under SUM, and the product of the weighted terms, with scale and
\* offset not applied, under PRODUCT.
C21_WeightedSumAndProduct ==
    (/\ WeightsGiven
     /\ Len(fn.param_defaults.WEIGHTS.w) = Len(TermsOf(fn.variable))) =>
        /\ fn.outcome = "ok"
        /\ (call.op = "execute" /\ call.params = NoParams) =>
               LET terms == TermsOf(fn.variable)
                   w == fn.param_defaults.WEIGHTS.w
                   params == fn.paramInstanceDefaults
               IN  call.result =
                       IF params.OPERATION = SUM
                       THEN Ok(Num(WeightedSum(terms, w) * params.SCALE
                                   + params.OFFSET))
                       ELSE Ok(Num(WeightedProduct(terms, w)))

\* C22: an Arithmetic given a list of weights that are not as many as its
\* terms, at construction or in a call of execute, raises an error: it is
\* not constructed, or the call returns no result.
C22_WeightsLengthEnforced ==
    /\ (/\ WeightsGiven
        /\ Len(fn.param_defaults.WEIGHTS.w) # Len(TermsOf(fn.variable))) =>
           fn.outcome = "failed" /\ fn.error # "none"
    /\ (/\ fn.cls = "Arithmetic"
        /\ call.op = "execute"
        /\ "WEIGHTS" \in DOMAIN call.params
        /\ call.params.WEIGHTS.container = "list"
        /\ Len(call.params.WEIGHTS.w) # Len(TermsOf(fn.variable))) =>
           call.result.err # "none"

\* How often id is in the list
Occurrences(list, id) == Cardinality({i \in 1..Len(list) : list[i] = id})

\* The list holds projections in the order of their construction, each once
InOrderOfConstruction(list) ==
    \A i, j \in 1..Len(list) : i < j => list[i] < list[j]

\* The list after a step begins with the list before it
Extended(before, after) ==
    /\ Len(before) <= Len(after)
    /\ SubSeq(after, 1, Len(before)) = before

\* C23: a projection that is constructed is once in the sendsToProjections
\* of its sender and once in the receivesFromProjections of its receiver;
\* every such list holds projections in the order they were constructed in;
\* and a step only ever appends to these lists.
C23_RegistrationAppendOnly ==
    /\ [](/\ proj.outcome = "done" =>
               /\ Occurrences(states[proj.sender].sendsToProjections,
                              proj.id) = 1
               /\ Occurrences(states[proj.receiver].receivesFromProjections,
                              proj.id) = 1
          /\ \A s \in DOMAIN states :
               /\ InOrderOfConstruction(states[s].sendsToProjections)
               /\ InOrderOfConstruction(states[s].receivesFromProjections))
    /\ [][\A s \in DOMAIN states :
            /\ s \in DOMAIN states'
            /\ Extended(states[s].sendsToProjections,
                        states'[s].sendsToProjections)
            /\ Extended(states[s].receivesFromProjections,
                        states'[s].receivesFromProjections)]_vars

C23_Witness ==
    /\ proj.outcome = "done"
    /\ proj.id = 3
    /\ states["outA"].sendsToProjections = <<1, 2, 3>>
    /\ states["inA"].receivesFromProjections = <<1, 3>>
    /\ states["inB"].receivesFromProjections = <<2>>

\* validate_params has been called and has returned or raised
Validated ==
    /\ Len(proj.started) >= 1
    /\ Succeeded("validate_params") \/ FailedIn("validate_params")

\* An instance or a class of Mechanism or MechanismState
InstanceOrClass(x) ==
    \/ x \in Mechanisms
    \/ x \in DOMAIN proj.statesBefore
    \/ x \in StateClasses \cup MechanismClasses

\* C24: when kwProjectionSender is not valid and the default of the class
\* is not valid either, validate_params fails with ProjectionError whatever
\* the sender argument, and no later stage is started.
C24_BothInvalidIsProjectionError ==
    (/\ Validated
     /\ ~InstanceOrClass(proj.senderParam)
     /\ ~InstanceOrClass(ClassDefaultSender(proj.type))) =>
        /\ FailedIn("validate_params")
        /\ proj.error = "ProjectionError"
        /\ Len(proj.started) = 1

\* C25: when kwProjectionSender is an instance or a class of Mechanism or
\* MechanismState and is not the default of the class, validate_params
\* makes it the sender of the projection, whatever the sender argument is.
C25_SenderParamPrecedes ==
    (/\ Validated
     /\ InstanceOrClass(proj.senderParam)
     /\ proj.senderParam # ClassDefaultSender(proj.type)) =>
        /\ Succeeded("validate_params")
        /\ Len(proj.started) = 1 => proj.sender = proj.senderParam
        /\ proj.senderSpec \in {NotImplemented, proj.senderParam}

C25_Witness ==
    /\ Succeeded("validate_params")
    /\ Len(proj.started) = 1
    /\ proj.senderArg = "outA"
    /\ proj.senderParam = "outB"
    /\ proj.sender = "outB"

\* C26: when kwProjectionSender is not valid and the sender argument is an
\* instance of Mechanism or MechanismState, validate_params returns with
\* the sender argument as the sender of the projection.
C26_ArgumentUsedWhenParamInvalid ==
    (/\ Validated
     /\ ~InstanceOrClass(proj.senderParam)
     /\ proj.senderArg \in Mechanisms \cup DOMAIN proj.statesBefore) =>
        /\ Succeeded("validate_params")
        /\ Len(proj.started) = 1 => proj.sender = proj.senderArg

\* The output that is reconciled is a bare number and the variable of the
\* receiver a container of length 1
NumberForLengthOne ==
    /\ Stage = "reconcile_output"
    /\ IsNumber(proj.value)
    /\ states[proj.receiver].value.dim = 1
    /\ len(states[proj.receiver].value) = 1

LengthOf(value) == IF HasLen(value) THEN len(value) ELSE 1

\* Values of every shape an output can have
OutputShapes ==
    {Num(0), Vec(<<0>>), Vec(<<0, 0>>), Vec(<<0, 0, 0>>),
     Mat(<<<<0>>>>), Mat(<<<<0, 0>>>>), Mat(<<<<0>>, <<0>>>>)}

MatrixCalled ==
    /\ fn.cls = "LinearMatrix"
    /\ call.op = "execute"
    /\ call.result.err = "none"

\* variable times the matrix a specification stands for
TimesSpecified(specification) ==
    np_dot(fn.variable,
           implement_matrix(specification, len(fn.variable),
                            len(fn.receiver)).matrix).rows

\* C29: a call of LinearMatrix.execute with kwMatrix in its params returns
\* the variable times the matrix specified in the call; a call without it,
\* also after a call with it, returns the variable times the matrix built
\* at construction.
C29_MatrixOverriddenPerCall ==
    MatrixCalled =>
        IF "Matrix" \in DOMAIN call.params
        THEN call.result.val.rows = TimesSpecified(call.params.Matrix)
        ELSE call.result.val.rows = TimesSpecified(fn.paramInstanceDefaults.Matrix)

\* The default is a class or an instance of Mechanism or MechanismState
MechanismOrStateRef(default) ==
    /\ default.kind \in {"class", "instance"}
    /\ IsMechanismOrStateClassName(default.name)

\* The loop has gone over every projection type without an error
PackageResolved ==
    package.error = "none" /\ package.pc = Len(ProjectionRegistry) + 1

\* The projection types the loop has gone over without an error
Passed ==
    {ProjectionRegistry[i] : i \in 1..(package.pc - 1)}

\* C30: when the loop has completed without an error every projection
\* type's default sender is a class or an instance of Mechanism or
\* MechanismState; a default declared as a string is, once the loop has gone
\* over it, the class registered under that name in the Mechanism or the
\* MechanismState registry; and InitError is raised only for a string found in
\* neither registry or for a default that is not a string, nor a class or
\* instance of Mechanism or MechanismState.
C30_DefaultSendersResolved ==
    /\ PackageResolved =>
           \A type \in DOMAIN package.projection_params :
               MechanismOrStateRef(package.projection_params[type])
    /\ \A type \in Passed :
           package.given[type].kind = "str" =>
               /\ package.given[type].name
                      \in MechanismRegistry \cup MechanismStateRegistry
               /\ package.projection_params[type]
                      = ClassRef(package.given[type].name)
    /\ package.error = "InitError" =>
           LET given == package.given[ProjectionRegistry[package.pc]]
           IN  \/ /\ given.kind = "str"
                  /\ given.name \notin MechanismRegistry
                                       \cup MechanismStateRegistry
               \/ /\ given.kind # "str"
                  /\ ~MechanismOrStateRef(given)

============================================================================
